---- MODULE Spec2Model ----
(***************************************************************************)
(* Battery Notes sensor platform (custom_components/battery_notes/         *)
(* sensor.py): one configuration entry with its three derived sensors      *)
(* (BatteryNotesTypeSensor, BatteryNotesLastReplacedSensor,                *)
(* BatteryNotesBatteryPlusSensor), the wrapped (upstream) battery entity,  *)
(* the registries, the state machine, the store and the coordinator's      *)
(* listener list.                                                          *)
(*                                                                         *)
(* Every handler is a function from the world W (the record of all         *)
(* variables) to the world after the handler; an action applies one        *)
(* handler and commits the result.                                         *)
(***************************************************************************)
EXTENDS Integers, Sequences, FiniteSets, TLC

\* Python's None and a present value.
None == <<>>
Some(v) == <<v>>
Val(o) == o[1]

EmptyDict == <<>>
\* dict.get(k, default)
Get(d, k, default) == IF k \in DOMAIN d THEN d[k] ELSE default
\* a.update(b): the keys of b overwrite the keys of a
Update(a, b) == b @@ a

---------------------------------------------------------------------------
\* const.py
LAST_REPLACED == "battery_last_replaced"
DOMAIN_CONFIG == "config"
CONF_ENABLE_REPLACED == "enable_replaced"
CONF_HIDE_BATTERY == "hide_battery"
CONF_ROUND_BATTERY == "round_battery"
ATTR_BATTERY_QUANTITY == "battery_quantity"
ATTR_BATTERY_TYPE == "battery_type"
ATTR_BATTERY_TYPE_AND_QUANTITY == "battery_type_and_quantity"
ATTR_BATTERY_LAST_REPLACED == "battery_last_replaced"
ATTR_BATTERY_LOW == "battery_low"
ATTR_BATTERY_LOW_THRESHOLD == "battery_low_threshold"
DEFAULT_BATTERY_LOW_THRESHOLD == 10

\* homeassistant.const, as imported by sensor.py
STATE_UNAVAILABLE == "unavailable"
STATE_UNKNOWN == "unknown"
INTEGRATION == "integration"
USER == "user"

---------------------------------------------------------------------------
\* The universe of the model.

\* config_entry.entry_id, entry.data[CONF_DEVICE_ID] and another device
EntryId == "01hentry"
DeviceId == "dev1"
OtherDeviceId == "dev2"

\* entity ids the wrapped battery can have (before and after a rename)
EntityIds == {"sensor.bat", "sensor.bat_renamed"}
InitialEntityId == "sensor.bat"

\* The states the wrapped battery reports: the two sentinels, a textual
\* level, and numbers.  FloatOf is float(s) in hundredths.
NumericStates == {"2.25", "2.78"}
TextStates == {STATE_UNAVAILABLE, STATE_UNKNOWN, "low"}
UpstreamStates == NumericStates \cup TextStates
FloatOf(s) == CASE s = "2.25" -> 225
                [] s = "2.78" -> 278

\* The state objects the wrapped battery writes.  The attributes of the
\* last one have a key of their own and two keys the coordinator can also
\* supply (the upstream's last-replaced date is the date 0).
UpstreamAttributes == (ATTR_BATTERY_TYPE :> "upstream") @@ ("voltage" :> "3V")
                      @@ (ATTR_BATTERY_LAST_REPLACED :> Some(0))
UpstreamStateObjects ==
    {[state |-> s, attributes |-> EmptyDict] : s \in TextStates \cup {"2.25"}}
    \cup {[state |-> "2.78", attributes |-> UpstreamAttributes]}

BatteryTypes == {"AA", "CR2032"}
BatteryQuantity == 2

\* last-replaced values of the store: naive timestamps 1..MaxDate
MaxDate == 2
Dates == 1..MaxDate

\* hass.data[DOMAIN]: without DOMAIN_CONFIG (None), or with a domain_config
\* dictionary, empty or giving the three options
OptionKeys == {CONF_ENABLE_REPLACED, CONF_HIDE_BATTERY, CONF_ROUND_BATTERY}
DomainConfigs ==
    {None, Some(EmptyDict),
     Some([c \in OptionKeys |-> c # CONF_ENABLE_REPLACED])}

Sensors == {"type", "last_replaced", "plus"}

VARIABLES
    hass_data,        \* Option(domain_config)
    entity_registry,  \* the wrapped battery's registry entry, or None
    own_registry,     \* the registry entries of the entry's own entities
    device_registry,  \* the entry's device: None, or Some(config entries)
    hass_states,      \* hass.states: entity id -> state object (partial)
    store,            \* store.async_get_device(device_id): None or Some(dict)
    coordinator,      \* the device's coordinator and its listeners
    config_entry,     \* the configuration entry and the platform setup
    type_sensor, last_replaced_sensor, plus_sensor,
    wrote,            \* the entities that wrote their state in the last step
    calls,            \* registry update calls made in the last step
    state_listeners,  \* async_track_state_change_event: entity id -> count
    restore_data,     \* RestoreSensor's stored native value of the TypeSensor
    ever_replaced,    \* a replacement has been recorded for the device
    fresh_start       \* no TypeSensor was added since Home Assistant started

vars == <<hass_data, entity_registry, own_registry, device_registry,
          hass_states, store, coordinator, config_entry, type_sensor,
          last_replaced_sensor, plus_sensor, wrote, calls,
          state_listeners, restore_data, ever_replaced, fresh_start>>

W == [hass_data |-> hass_data, entity_registry |-> entity_registry,
      own_registry |-> own_registry, device_registry |-> device_registry,
      hass_states |-> hass_states, store |-> store,
      coordinator |-> coordinator, config_entry |-> config_entry,
      type_sensor |-> type_sensor,
      last_replaced_sensor |-> last_replaced_sensor,
      plus_sensor |-> plus_sensor, wrote |-> {},
      calls |-> <<>>, state_listeners |-> state_listeners,
      restore_data |-> restore_data, ever_replaced |-> ever_replaced,
      fresh_start |-> fresh_start]

Commit(w) ==
    /\ hass_data' = w.hass_data
    /\ entity_registry' = w.entity_registry
    /\ own_registry' = w.own_registry
    /\ device_registry' = w.device_registry
    /\ hass_states' = w.hass_states
    /\ store' = w.store
    /\ coordinator' = w.coordinator
    /\ config_entry' = w.config_entry
    /\ type_sensor' = w.type_sensor
    /\ last_replaced_sensor' = w.last_replaced_sensor
    /\ plus_sensor' = w.plus_sensor
    /\ wrote' = w.wrote
    /\ calls' = w.calls
    /\ state_listeners' = w.state_listeners
    /\ restore_data' = w.restore_data
    /\ ever_replaced' = w.ever_replaced
    /\ fresh_start' = w.fresh_start

---------------------------------------------------------------------------
\* Collaborators that sensor.py imports from the rest of the integration.

\* common.isfloat: whether float(s) succeeds
isfloat(s) == s \in NumericStates

\* coordinator.battery_type_and_quantity: the composite of quantity and type
battery_type_and_quantity(w) == <<BatteryQuantity, w.coordinator.battery_type>>

\* coordinator.last_replaced: the store's value for the device
coordinator_last_replaced(w) ==
    IF w.store # None /\ LAST_REPLACED \in DOMAIN Val(w.store)
    THEN Some(Val(w.store)[LAST_REPLACED]) ELSE None

\* coordinator.battery_low: the wrapped battery's level is below the threshold
battery_low(w) ==
    /\ w.plus_sensor.battery_entity_id # None
    /\ Val(w.plus_sensor.battery_entity_id) \in DOMAIN w.hass_states
    /\ isfloat(w.hass_states[Val(w.plus_sensor.battery_entity_id)].state)
    /\ FloatOf(w.hass_states[Val(w.plus_sensor.battery_entity_id)].state)
         < DEFAULT_BATTERY_LOW_THRESHOLD * 100

\* device.wrapped_battery: the registry entry of the device's battery entity
wrapped_battery(w) ==
    IF w.entity_registry # None /\ Val(w.entity_registry).device_id = DeviceId
    THEN w.entity_registry ELSE None

\* registry.async_get(entity_id) for an entity id of the wrapped battery
registry_async_get(w, entity_id) ==
    IF entity_id # None /\ w.entity_registry # None
       /\ Val(w.entity_registry).entity_id = Val(entity_id)
    THEN w.entity_registry ELSE None

---------------------------------------------------------------------------
\* Rendering: Entity.async_write_ha_state reads the entity's native_value
\* and extra_state_attributes and writes them to the state machine.

\* round, truncating instead of rounding to the nearest
round_truncates(x, ndigits) ==
    LET unit == IF ndigits = 0 THEN 100 ELSE 10
    IN (x \div unit) * unit

\* Python's round(x, ndigits) of a float x given in hundredths, for ndigits
\* 0 or 1; the result in hundredths.  Ties go to the even digit.
round(x, ndigits) ==
    LET unit == IF ndigits = 0 THEN 100 ELSE 10
        q == x \div unit
        r == x % unit
    IN IF 2 * r < unit THEN q * unit
       ELSE IF 2 * r > unit THEN (q + 1) * unit
       ELSE IF q % 2 = 0 THEN q * unit ELSE (q + 1) * unit

\* datetime.fromisoformat(str(d) + "+00:00"): the stored naive timestamp
\* read as a timestamp in UTC
fromisoformat_utc(d) == [wall |-> d, utcoffset |-> 0]

\* the attrs with battery_last_replaced whatever enable_replaced says
Plus_coordinator_attributes_always_replaced(w) ==
    (ATTR_BATTERY_QUANTITY :> BatteryQuantity)
    @@ (ATTR_BATTERY_TYPE :> w.coordinator.battery_type)
    @@ (ATTR_BATTERY_TYPE_AND_QUANTITY :> battery_type_and_quantity(w))
    @@ (ATTR_BATTERY_LOW :> battery_low(w))
    @@ (ATTR_BATTERY_LOW_THRESHOLD :> DEFAULT_BATTERY_LOW_THRESHOLD)
    @@ (ATTR_BATTERY_LAST_REPLACED :> coordinator_last_replaced(w))

\* BatteryNotesBatteryPlusSensor.extra_state_attributes, the attrs it builds
\* from the coordinator
Plus_coordinator_attributes(w) ==
    LET attrs == (ATTR_BATTERY_QUANTITY :> BatteryQuantity)
                 @@ (ATTR_BATTERY_TYPE :> w.coordinator.battery_type)
                 @@ (ATTR_BATTERY_TYPE_AND_QUANTITY :> battery_type_and_quantity(w))
                 @@ (ATTR_BATTERY_LOW :> battery_low(w))
                 @@ (ATTR_BATTERY_LOW_THRESHOLD :> DEFAULT_BATTERY_LOW_THRESHOLD)
    IN IF w.plus_sensor.enable_replaced
       THEN Update(attrs, ATTR_BATTERY_LAST_REPLACED :> coordinator_last_replaced(w))
       ELSE attrs

\* BatteryNotesBatteryPlusSensor.extra_state_attributes; the base classes'
\* extra_state_attributes is None
Plus_extra_state_attributes(w) ==
    LET attrs == Plus_coordinator_attributes(w)
        super_attrs == None
        attrs2 == IF super_attrs # None /\ Val(super_attrs) # EmptyDict
                  THEN Update(attrs, Val(super_attrs)) ELSE attrs
        wrapped == w.plus_sensor.wrapped_attributes
    IN IF wrapped # None /\ Val(wrapped) # EmptyDict
       THEN Update(attrs2, Val(wrapped)) ELSE attrs2

\* BatteryNotesBatteryPlusSensor.native_value
Plus_native_value(w) == w.plus_sensor.attr_native_value

\* BatteryNotesTypeSensor.native_value
Type_native_value(w) == battery_type_and_quantity(w)

\* BatteryNotesTypeSensor.extra_state_attributes
Type_extra_state_attributes(w) ==
    (ATTR_BATTERY_QUANTITY :> BatteryQuantity)
    @@ (ATTR_BATTERY_TYPE :> w.coordinator.battery_type)

\* BatteryNotesLastReplacedSensor.native_value
LastReplaced_native_value(w) == w.last_replaced_sensor.native_value

\* Entity.async_write_ha_state of the entity s
async_write_ha_state(w, s) == [w EXCEPT !.wrote = @ \cup {s}]

---------------------------------------------------------------------------
\* The coordinator's refresh and its listeners.

\* _handle_coordinator_update clearing the value when the store has no
\* last-replaced date for the device
LastReplaced_handle_coordinator_update_clears(w) ==
    LET device_entry == w.store IN
    IF device_entry # None /\ LAST_REPLACED \in DOMAIN Val(device_entry)
    THEN async_write_ha_state(
             [w EXCEPT !.last_replaced_sensor.native_value =
                           Some(fromisoformat_utc(Val(device_entry)[LAST_REPLACED]))],
             "last_replaced")
    ELSE async_write_ha_state(
             [w EXCEPT !.last_replaced_sensor.native_value = None],
             "last_replaced")

\* _handle_coordinator_update setting the value only while it is absent
LastReplaced_handle_coordinator_update_once(w) ==
    LET device_entry == w.store IN
    IF device_entry # None /\ LAST_REPLACED \in DOMAIN Val(device_entry)
    THEN async_write_ha_state(
             [w EXCEPT !.last_replaced_sensor.native_value =
                           IF @ = None
                           THEN Some(fromisoformat_utc(Val(device_entry)[LAST_REPLACED]))
                           ELSE @],
             "last_replaced")
    ELSE w

\* BatteryNotesLastReplacedSensor._handle_coordinator_update
LastReplaced_handle_coordinator_update(w) ==
    LET device_entry == w.store IN
    IF device_entry # None /\ LAST_REPLACED \in DOMAIN Val(device_entry)
    THEN async_write_ha_state(
             [w EXCEPT !.last_replaced_sensor.native_value =
                           Some(fromisoformat_utc(Val(device_entry)[LAST_REPLACED]))],
             "last_replaced")
    ELSE w

\* _handle_coordinator_update dropping the passthrough attributes
Plus_handle_coordinator_update_clears(w) ==
    async_write_ha_state([w EXCEPT !.plus_sensor.wrapped_attributes = None], "plus")

\* BatteryNotesBatteryPlusSensor._handle_coordinator_update
Plus_handle_coordinator_update(w) == async_write_ha_state(w, "plus")

\* DataUpdateCoordinator.async_update_listeners: every registered listener
\* is called.  BatteryNotesTypeSensor is no CoordinatorEntity and has no
\* _handle_coordinator_update, so it is never among the listeners.
async_update_listeners(w) ==
    LET w1 == IF w.coordinator.listeners["last_replaced"] > 0
              THEN LastReplaced_handle_coordinator_update(w) ELSE w
    IN IF w1.coordinator.listeners["plus"] > 0
       THEN Plus_handle_coordinator_update(w1) ELSE w1

\* coordinator.async_refresh / async_config_entry_first_refresh: the data is
\* recomputed (the coordinator's properties read the store and the state
\* machine when asked) and the listeners are called
async_refresh(w) == async_update_listeners(w)

\* coordinator.async_add_listener(update_callback) for the sensor s
async_add_listener(w, s) == [w EXCEPT !.coordinator.listeners[s] = @ + 1]

---------------------------------------------------------------------------
\* BatteryNotesBatteryPlusSensor

NoPlusSensor == [exists |-> FALSE, added |-> FALSE, on_remove |-> {},
                 unique_id |-> None, battery_entity_id |-> None,
                 attr_native_value |-> None, attr_available |-> TRUE,
                 wrapped_attributes |-> None, enable_replaced |-> TRUE,
                 round_battery |-> FALSE]

\* __init__
Plus_init(w, unique_id, enable_replaced, round_battery) ==
    [NoPlusSensor EXCEPT
        !.exists = TRUE,
        !.unique_id = Some(unique_id),
        !.enable_replaced = enable_replaced,
        !.round_battery = round_battery,
        !.battery_entity_id = IF wrapped_battery(w) # None
                              THEN Some(Val(wrapped_battery(w)).entity_id)
                              ELSE None]

\* async_state_changed_listener dropping the passthrough attributes of a
\* battery that is no longer numeric
async_state_changed_listener_clears_attributes(w) ==
    LET p == w.plus_sensor IN
    IF p.battery_entity_id = None THEN w
    ELSE
      LET id == Val(p.battery_entity_id) IN
      IF \/ id \notin DOMAIN w.hass_states
         \/ w.hass_states[id].state \in {STATE_UNAVAILABLE, STATE_UNKNOWN}
         \/ ~isfloat(w.hass_states[id].state)
      THEN async_write_ha_state(
               [w EXCEPT !.plus_sensor.attr_native_value = None,
                         !.plus_sensor.attr_available = FALSE,
                         !.plus_sensor.wrapped_attributes = None],
               "plus")
      ELSE
        async_write_ha_state(
            [w EXCEPT
               !.plus_sensor.attr_available = TRUE,
               !.plus_sensor.attr_native_value =
                   IF p.round_battery
                   THEN Some(round(FloatOf(w.hass_states[id].state), 0))
                   ELSE Some(round(FloatOf(w.hass_states[id].state), 1)),
               !.plus_sensor.wrapped_attributes =
                   Some(w.hass_states[id].attributes)],
            "plus")

\* async_state_changed_listener keeping the last value of a battery that is
\* no longer numeric
async_state_changed_listener_keeps_value(w) ==
    LET p == w.plus_sensor IN
    IF p.battery_entity_id = None THEN w
    ELSE
      LET id == Val(p.battery_entity_id) IN
      IF \/ id \notin DOMAIN w.hass_states
         \/ w.hass_states[id].state \in {STATE_UNAVAILABLE, STATE_UNKNOWN}
         \/ ~isfloat(w.hass_states[id].state)
      THEN async_write_ha_state([w EXCEPT !.plus_sensor.attr_available = FALSE],
                                "plus")
      ELSE
        async_write_ha_state(
            [w EXCEPT
               !.plus_sensor.attr_available = TRUE,
               !.plus_sensor.attr_native_value =
                   IF p.round_battery
                   THEN Some(round(FloatOf(w.hass_states[id].state), 0))
                   ELSE Some(round(FloatOf(w.hass_states[id].state), 1)),
               !.plus_sensor.wrapped_attributes =
                   Some(w.hass_states[id].attributes)],
            "plus")

\* async_state_changed_listener
async_state_changed_listener(w) ==
    LET p == w.plus_sensor IN
    IF p.battery_entity_id = None THEN w
    ELSE
      LET id == Val(p.battery_entity_id) IN
      IF \/ id \notin DOMAIN w.hass_states
         \/ w.hass_states[id].state \in {STATE_UNAVAILABLE, STATE_UNKNOWN}
         \/ ~isfloat(w.hass_states[id].state)
      THEN async_write_ha_state(
               [w EXCEPT !.plus_sensor.attr_native_value = None,
                         !.plus_sensor.attr_available = FALSE],
               "plus")
      ELSE
        LET wrapped_battery_state == w.hass_states[id] IN
        async_write_ha_state(
            [w EXCEPT
               !.plus_sensor.attr_available = TRUE,
               !.plus_sensor.attr_native_value =
                   IF p.round_battery
                   THEN Some(round(FloatOf(wrapped_battery_state.state), 0))
                   ELSE Some(round(FloatOf(wrapped_battery_state.state), 1)),
               !.plus_sensor.wrapped_attributes =
                   Some(wrapped_battery_state.attributes)],
            "plus")

\* the un-hide issued for every hidden wrapped battery, whoever hid it
Plus_update_hidden_unhides_any(w, wrapped) ==
    IF w.hass_data = None THEN w
    ELSE
      LET domain_config == Val(w.hass_data)
          hide_battery == Get(domain_config, CONF_HIDE_BATTERY, FALSE)
      IN IF hide_battery
         THEN IF Val(wrapped).hidden_by = None
              THEN [w EXCEPT !.entity_registry = Some([Val(@) EXCEPT !.hidden_by = Some(INTEGRATION)]),
                             !.calls = Append(@, "hidden_by")]
              ELSE w
         ELSE IF Val(wrapped).hidden_by # None
              THEN [w EXCEPT !.entity_registry = Some([Val(@) EXCEPT !.hidden_by = None]),
                             !.calls = Append(@, "hidden_by")]
              ELSE w

\* the hide issued for every wrapped battery, hidden already or not
Plus_update_hidden_always(w, wrapped) ==
    IF w.hass_data = None THEN w
    ELSE
      LET domain_config == Val(w.hass_data)
          hide_battery == Get(domain_config, CONF_HIDE_BATTERY, FALSE)
      IN IF hide_battery
         THEN [w EXCEPT !.entity_registry = Some([Val(@) EXCEPT !.hidden_by = Some(INTEGRATION)]),
                        !.calls = Append(@, "hidden_by")]
         ELSE IF Val(wrapped).hidden_by = Some(INTEGRATION)
              THEN [w EXCEPT !.entity_registry = Some([Val(@) EXCEPT !.hidden_by = None]),
                             !.calls = Append(@, "hidden_by")]
              ELSE w

\* async_added_to_hass, "Update entity options" to the hide / un-hide of the
\* wrapped battery
Plus_update_hidden(w, wrapped) ==
    IF w.hass_data = None THEN w
    ELSE
      LET domain_config == Val(w.hass_data)
          hide_battery == Get(domain_config, CONF_HIDE_BATTERY, FALSE)
      IN IF hide_battery
         THEN IF Val(wrapped).hidden_by = None
              THEN [w EXCEPT !.entity_registry = Some([Val(@) EXCEPT !.hidden_by = Some(INTEGRATION)]),
                             !.calls = Append(@, "hidden_by")]
              ELSE w
         ELSE IF Val(wrapped).hidden_by = Some(INTEGRATION)
              THEN [w EXCEPT !.entity_registry = Some([Val(@) EXCEPT !.hidden_by = None]),
                             !.calls = Append(@, "hidden_by")]
              ELSE w

\* copy_custom_name appending "+" to the name the sensor already has
copy_custom_name_appends(w, wrapped) ==
    IF Val(wrapped).name = None THEN w
    ELSE [w EXCEPT !.own_registry.plus_name =
                       IF @ = None THEN Some(Val(Val(wrapped).name) \o <<"+">>)
                       ELSE Some(Val(@) \o <<"+">>),
                   !.calls = Append(@, "name")]

\* async_added_to_hass.copy_custom_name
copy_custom_name(w, wrapped) ==
    IF Val(wrapped).name = None THEN w
    ELSE [w EXCEPT !.own_registry.plus_name = Some(Val(Val(wrapped).name) \o <<"+">>),
                   !.calls = Append(@, "name")]

\* the state subscription made without handing it to async_on_remove
Plus_track_state_change_leaks(w) ==
    LET p == w.plus_sensor
    IN IF p.battery_entity_id # None
       THEN [w EXCEPT !.state_listeners[Val(p.battery_entity_id)] = @ + 1]
       ELSE w

\* async_added_to_hass, self.async_on_remove(async_track_state_change_event(
\* self.hass, [self._battery_entity_id], _async_state_changed_listener))
Plus_track_state_change(w) ==
    LET p == w.plus_sensor
    IN IF p.battery_entity_id # None
       THEN [w EXCEPT !.state_listeners[Val(p.battery_entity_id)] = @ + 1,
                      !.plus_sensor.on_remove = @ \cup {"state"}]
       ELSE w

\* the add without the initial read
Plus_call_once_on_adding_skipped(w) == w

\* async_added_to_hass, "Call once on adding"
Plus_call_once_on_adding(w) == async_state_changed_listener(w)

\* async_added_to_hass
Plus_async_added_to_hass(w) ==
    LET p == w.plus_sensor
        w1 == Plus_track_state_change(w)
        w2 == Plus_call_once_on_adding(w1)
        w3 == IF w2.own_registry.plus_registered /\ p.battery_entity_id # None
              THEN [w2 EXCEPT !.calls = Append(@, "options")]
              ELSE w2
        wrapped == registry_async_get(w3, p.battery_entity_id)
    IN IF wrapped = None THEN w3
       ELSE LET w4 == copy_custom_name(Plus_update_hidden(w3, wrapped), wrapped)
                w5 == [async_add_listener(w4, "plus") EXCEPT
                          !.plus_sensor.on_remove = @ \cup {"coordinator"}]
            IN async_refresh(w5)

---------------------------------------------------------------------------
\* BatteryNotesTypeSensor

NoTypeSensor == [exists |-> FALSE, added |-> FALSE, on_remove |-> {},
                 unique_id |-> None, attr_native_value |-> None]

\* __init__
Type_init(w, unique_id) ==
    [NoTypeSensor EXCEPT !.exists = TRUE, !.unique_id = Some(unique_id)]

\* async_added_to_hass
Type_async_added_to_hass(w) ==
    LET state == w.restore_data
        w1 == IF state # None
              THEN [w EXCEPT !.type_sensor.attr_native_value = state]
              ELSE w
    IN IF w1.own_registry.type_registered
       THEN [w1 EXCEPT !.calls = Append(@, "options")]
       ELSE w1

---------------------------------------------------------------------------
\* BatteryNotesLastReplacedSensor

NoLastReplacedSensor == [exists |-> FALSE, added |-> FALSE, on_remove |-> {},
                         unique_id |-> None, native_value |-> None]

\* _set_native_value
set_native_value(w, sensor) ==
    LET device_entry == w.store IN
    IF device_entry # None /\ LAST_REPLACED \in DOMAIN Val(device_entry)
    THEN [sensor EXCEPT !.native_value =
                            Some(fromisoformat_utc(Val(device_entry)[LAST_REPLACED]))]
    ELSE sensor

\* __init__
LastReplaced_init(w, unique_id) ==
    set_native_value(w, [NoLastReplacedSensor EXCEPT
                            !.exists = TRUE, !.unique_id = Some(unique_id)])

\* async_added_to_hass registering _handle_coordinator_update itself after
\* CoordinatorEntity.async_added_to_hass has registered it
LastReplaced_async_added_to_hass_twice(w) ==
    [async_add_listener(async_add_listener(w, "last_replaced"), "last_replaced")
        EXCEPT !.last_replaced_sensor.on_remove = @ \cup {"coordinator"}]

\* async_added_to_hass: CoordinatorEntity.async_added_to_hass registers
\* _handle_coordinator_update with the coordinator
LastReplaced_async_added_to_hass(w) ==
    [async_add_listener(w, "last_replaced") EXCEPT
        !.last_replaced_sensor.on_remove = @ \cup {"coordinator"}]

---------------------------------------------------------------------------
\* The configuration entry: its setup by async_setup_entry, and its unload,
\* reload and removal by hass.config_entries.

\* Entity.async_remove for every entity of the entry: each on_remove callback
\* runs (the subscriptions handed to async_on_remove are released), and the
\* entity's state leaves the state machine
remove_entities(w) ==
    LET p == w.plus_sensor
        l == w.last_replaced_sensor
        plus_coordinator == IF "coordinator" \in p.on_remove THEN 1 ELSE 0
        last_coordinator == IF "coordinator" \in l.on_remove THEN 1 ELSE 0
    IN [w EXCEPT
          !.state_listeners =
              [e \in EntityIds |->
                  IF "state" \in p.on_remove /\ p.battery_entity_id = Some(e)
                  THEN @[e] - 1 ELSE @[e]],
          !.coordinator.listeners =
              [@ EXCEPT !["plus"] = @ - plus_coordinator,
                        !["last_replaced"] = @ - last_coordinator],
          !.plus_sensor = NoPlusSensor,
          !.type_sensor = NoTypeSensor,
          !.last_replaced_sensor = NoLastReplacedSensor]

\* hass.config_entries.async_unload: the platform's entities are removed and
\* the callbacks handed to config_entry.async_on_unload run
async_unload(w) ==
    [remove_entities(w) EXCEPT
        !.config_entry = [state |-> "not_loaded", setup_pc |-> "none",
                          registry_listener |-> None]]

\* async_setup_entry, the unique_id_suffix of the three entity descriptions
battery_plus_unique_id_suffix == "_battery_plus"
type_unique_id_suffix == ""
last_replaced_unique_id_suffix == "_battery_last_replaced"

\* unique_id dropping the description's suffix
format_unique_id_without_suffix(entry_id, unique_id_suffix) == entry_id

\* async_setup_entry, f"{config_entry.entry_id}{description.unique_id_suffix}"
format_unique_id(entry_id, unique_id_suffix) == entry_id \o unique_id_suffix

\* async_add_to_device
async_add_to_device(w) ==
    [w EXCEPT !.device_registry = Some(Val(@) \cup {EntryId}),
              !.calls = Append(@, "add_config_entry_id")]

\* async_setup_entry, up to async_add_entities(entities)
async_setup_entry(w) ==
    LET w1 == [w EXCEPT !.config_entry.registry_listener = Some(EntryId)]
        w2 == async_add_to_device(w1)
        w3 == async_refresh(w2)
        enable_replaced == IF w.hass_data # None
                           THEN Get(Val(w.hass_data), CONF_ENABLE_REPLACED, TRUE)
                           ELSE TRUE
        round_battery == IF w.hass_data # None
                         THEN Get(Val(w.hass_data), CONF_ROUND_BATTERY, FALSE)
                         ELSE FALSE
    IN [w3 EXCEPT
          !.type_sensor = Type_init(w3, format_unique_id(EntryId, type_unique_id_suffix)),
          !.last_replaced_sensor =
              LastReplaced_init(w3, format_unique_id(EntryId, last_replaced_unique_id_suffix)),
          !.plus_sensor = IF wrapped_battery(w3) # None
                          THEN Plus_init(w3, format_unique_id(EntryId, battery_plus_unique_id_suffix),
                                         enable_replaced, round_battery)
                          ELSE NoPlusSensor,
          !.config_entry.state = "loaded",
          !.config_entry.setup_pc = "first_refresh"]

\* async_setup_entry, its last line: coordinator.async_config_entry_first_refresh
setup_first_refresh(w) ==
    [async_refresh(w) EXCEPT !.config_entry.setup_pc = "done"]

\* hass.config_entries.async_reload
async_reload(w) == async_setup_entry(async_unload(w))

\* hass.config_entries.async_remove: the entry is unloaded and deleted, its
\* entities leave the entity registry and the entry leaves its device
async_remove(w) ==
    [async_unload(w) EXCEPT
        !.config_entry.state = "removed",
        !.own_registry = [plus_registered |-> FALSE, plus_name |-> None,
                          type_registered |-> FALSE],
        !.device_registry = IF @ = None THEN None ELSE Some(Val(@) \ {EntryId})]

\* async_setup_entry.async_registry_updated; device_id is what
\* async_add_to_device returned, entry.data[CONF_DEVICE_ID]
async_registry_updated(w, data) ==
    LET device_id == Some(DeviceId) IN
    IF data.action = "remove" THEN async_remove(w)
    ELSE IF data.action # "update" THEN w
    ELSE
      LET w1 == IF "entity_id" \in data.changes THEN async_reload(w) ELSE w
          entity_entry == registry_async_get(w1, Some(data.entity_id))
      IN IF device_id # None /\ "device_id" \in data.changes
         THEN IF \/ entity_entry = None
                 \/ w1.device_registry = None
                 \/ Val(entity_entry).device_id = Val(device_id)
              THEN w1
              ELSE [w1 EXCEPT !.device_registry = Some(Val(@) \ {EntryId}),
                              !.calls = Append(@, "remove_config_entry_id")]
         ELSE w1

\* async_track_entity_registry_updated_event(hass, entity_ids, action): the
\* action is called for the events whose old_entity_id, or else entity_id,
\* is one of the tracked entity_ids
fire_entity_registry_updated(w, data) ==
    LET key == IF data.old_entity_id # None THEN Val(data.old_entity_id)
               ELSE data.entity_id
    IN IF w.config_entry.registry_listener = Some(key)
       THEN async_registry_updated(w, data) ELSE w

\* async_track_state_change_event(hass, [entity_id], action): the state of
\* entity_id changed, the actions tracking it are called
fire_state_changed(w, entity_id) ==
    IF w.state_listeners[entity_id] > 0
       /\ w.plus_sensor.battery_entity_id = Some(entity_id)
    THEN async_state_changed_listener(w) ELSE w

---------------------------------------------------------------------------
\* The initial state: Home Assistant has started, the registries and the
\* store are loaded, the entry is not yet set up and no state is written.

NoOwnRegistry == [plus_registered |-> FALSE, plus_name |-> None,
                  type_registered |-> FALSE]

Init ==
    /\ hass_data \in DomainConfigs
    /\ entity_registry \in
         {Some([entity_id |-> InitialEntityId, device_id |-> DeviceId,
                hidden_by |-> h, name |-> n]) :
            h \in {None, Some(USER)}, n \in {None, Some(<<"Bat">>)}}
    /\ own_registry = NoOwnRegistry
    /\ device_registry = Some({})
    /\ hass_states = <<>>
    /\ store \in {None, Some(EmptyDict), Some(LAST_REPLACED :> 1)}
    /\ coordinator = [battery_type |-> "AA", listeners |-> [s \in Sensors |-> 0]]
    /\ config_entry = [state |-> "not_loaded", setup_pc |-> "none",
                       registry_listener |-> None]
    /\ type_sensor = NoTypeSensor
    /\ last_replaced_sensor = NoLastReplacedSensor
    /\ plus_sensor = NoPlusSensor
    /\ wrote = {}
    /\ calls = <<>>
    /\ state_listeners = [e \in EntityIds |-> 0]
    /\ restore_data = None
    /\ ever_replaced = (store # None /\ LAST_REPLACED \in DOMAIN Val(store))
    /\ fresh_start = TRUE

---------------------------------------------------------------------------
\* Actions

SetupEntry ==
    /\ config_entry.state = "not_loaded"
    /\ device_registry # None
    /\ Commit(async_setup_entry(W))

SetupFirstRefresh ==
    /\ config_entry.setup_pc = "first_refresh"
    /\ Commit(setup_first_refresh(W))

\* EntityPlatform adds the entities in the order of the list handed to
\* async_add_entities.  Adding one: it is registered in the entity registry,
\* async_added_to_hass runs and the entity writes its first state
AddTypeSensor ==
    /\ type_sensor.exists /\ ~type_sensor.added
    /\ Commit(async_write_ha_state(
           [Type_async_added_to_hass([W EXCEPT !.own_registry.type_registered = TRUE])
              EXCEPT !.type_sensor.added = TRUE, !.fresh_start = FALSE],
           "type"))

AddLastReplacedSensor ==
    /\ last_replaced_sensor.exists /\ ~last_replaced_sensor.added
    /\ type_sensor.added
    /\ Commit(async_write_ha_state(
           [LastReplaced_async_added_to_hass(W)
              EXCEPT !.last_replaced_sensor.added = TRUE],
           "last_replaced"))

AddPlusSensor ==
    /\ plus_sensor.exists /\ ~plus_sensor.added
    /\ last_replaced_sensor.added
    /\ Commit(async_write_ha_state(
           [Plus_async_added_to_hass([W EXCEPT !.own_registry.plus_registered = TRUE])
              EXCEPT !.plus_sensor.added = TRUE],
           "plus"))

\* The wrapped battery reports a state.
UpstreamStateChange(new) ==
    /\ entity_registry # None
    /\ LET id == Val(entity_registry).entity_id
       IN /\ id \in DOMAIN hass_states => hass_states[id] # new
          /\ Commit(fire_state_changed(
                 [W EXCEPT !.hass_states = (id :> new) @@ @], id))

\* States without the entity e.
WithoutState(states, e) == [x \in DOMAIN states \ {e} |-> states[x]]

\* The wrapped battery is removed from the entity registry: its state leaves
\* the state machine and the registry fires a remove event.
RemoveUpstream ==
    /\ entity_registry # None
    /\ LET id == Val(entity_registry).entity_id
           w1 == [W EXCEPT !.entity_registry = None,
                           !.hass_states = WithoutState(@, id)]
           w2 == fire_state_changed(w1, id)
       IN Commit(fire_entity_registry_updated(w2,
              [action |-> "remove", entity_id |-> id,
               old_entity_id |-> None, changes |-> {}]))

\* The wrapped battery is created (again) in the entity registry.
CreateUpstream ==
    /\ entity_registry = None
    /\ Commit(fire_entity_registry_updated(
           [W EXCEPT !.entity_registry =
               Some([entity_id |-> InitialEntityId, device_id |-> DeviceId,
                     hidden_by |-> None, name |-> None])],
           [action |-> "create", entity_id |-> InitialEntityId,
            old_entity_id |-> None, changes |-> {}]))

\* The wrapped battery is renamed: its entity_id changes, its state moves to
\* the new entity_id and the registry fires an update event.
RenameUpstream(new) ==
    /\ entity_registry # None
    /\ Val(entity_registry).entity_id # new
    /\ LET old == Val(entity_registry).entity_id
           w1 == [W EXCEPT
                    !.entity_registry = Some([Val(@) EXCEPT !.entity_id = new]),
                    !.hass_states =
                        IF old \in DOMAIN @
                        THEN (new :> @[old]) @@ WithoutState(@, old)
                        ELSE @]
           w2 == fire_state_changed(fire_state_changed(w1, old), new)
       IN Commit(fire_entity_registry_updated(w2,
              [action |-> "update", entity_id |-> new,
               old_entity_id |-> Some(old), changes |-> {"entity_id"}]))

\* The wrapped battery moves to another device.
MoveUpstream(dev) ==
    /\ entity_registry # None
    /\ Val(entity_registry).device_id # dev
    /\ Commit(fire_entity_registry_updated(
           [W EXCEPT !.entity_registry = Some([Val(@) EXCEPT !.device_id = dev])],
           [action |-> "update", entity_id |-> Val(entity_registry).entity_id,
            old_entity_id |-> None, changes |-> {"device_id"}]))

\* The names a user gives the wrapped battery in the entity registry.
Names == {None, Some(<<"Bat">>), Some(<<"Cell">>)}

\* The user sets or clears the wrapped battery's name: the registry fires an
\* update event.
SetUpstreamName(name) ==
    /\ name \in Names
    /\ entity_registry # None
    /\ Val(entity_registry).name # name
    /\ Commit(fire_entity_registry_updated(
           [W EXCEPT !.entity_registry = Some([Val(@) EXCEPT !.name = name])],
           [action |-> "update", entity_id |-> Val(entity_registry).entity_id,
            old_entity_id |-> None, changes |-> {"name"}]))

\* The coordinator refreshes (its update interval, or a request).
CoordinatorRefresh ==
    /\ config_entry.state = "loaded"
    /\ Commit(async_refresh(W))

\* set_battery_replaced: last_replaced is persisted, then the coordinator
\* refreshes and calls its listeners.
RecordReplacement(d) ==
    /\ config_entry.state = "loaded"
    /\ Commit(async_refresh(
           [W EXCEPT !.store = Some(Update(IF @ = None THEN EmptyDict ELSE Val(@),
                                           LAST_REPLACED :> d)),
                     !.ever_replaced = TRUE]))

\* The device's record is deleted from the store.
DeleteStoreDevice ==
    /\ store # None
    /\ Commit([W EXCEPT !.store = None])

\* The battery type of the device is edited; the coordinator refreshes.
UpdateMetadata(battery_type) ==
    /\ config_entry.state = "loaded"
    /\ coordinator.battery_type # battery_type
    /\ Commit(async_refresh([W EXCEPT !.coordinator.battery_type = battery_type]))

ReloadEntry ==
    /\ config_entry.state = "loaded"
    /\ device_registry # None
    /\ Commit(async_reload(W))

UnloadEntry ==
    /\ config_entry.state = "loaded"
    /\ Commit(async_unload(W))

RemoveEntry ==
    /\ config_entry.state # "removed"
    /\ Commit(async_remove(W))

\* RestoreEntity stores the TypeSensor's native_value (periodically, when
\* the entity is removed and when Home Assistant stops).
DumpStates ==
    /\ type_sensor.added
    /\ restore_data # Some(Type_native_value(W))
    /\ Commit([W EXCEPT !.restore_data = Some(Type_native_value(W))])

\* Home Assistant restarts: the registries, the store and the restore data
\* stay, everything else starts again.
Restart(domain_config) ==
    /\ domain_config \in DomainConfigs
    /\ Commit([async_unload(W) EXCEPT
              !.config_entry.state = IF config_entry.state = "removed"
                                     THEN "removed" ELSE "not_loaded",
              !.hass_data = domain_config,
              !.hass_states = <<>>,
              !.fresh_start = TRUE])

\* The entry's life cycle, with the domain configurations a restart may find.
Lifecycle(configs) ==
    \/ SetupEntry
    \/ SetupFirstRefresh
    \/ AddTypeSensor
    \/ AddLastReplacedSensor
    \/ AddPlusSensor
    \/ CoordinatorRefresh
    \/ ReloadEntry
    \/ UnloadEntry
    \/ RemoveEntry
    \/ \E c \in configs : Restart(c)

Telemetry(objects) == \E new \in objects : UpstreamStateChange(new)

Registry ==
    \/ RemoveUpstream
    \/ CreateUpstream
    \/ \E new \in EntityIds : RenameUpstream(new)
    \/ \E dev \in {DeviceId, OtherDeviceId} : MoveUpstream(dev)

Store ==
    \/ \E d \in Dates : RecordReplacement(d)
    \/ DeleteStoreDevice

Metadata ==
    \/ \E t \in BatteryTypes : UpdateMetadata(t)
    \/ DumpStates

Naming == \E name \in Names : SetUpstreamName(name)

Next ==
    \/ Lifecycle(DomainConfigs)
    \/ Telemetry(UpstreamStateObjects)
    \/ Registry
    \/ Naming
    \/ Store
    \/ Metadata

\* The program with all its inputs.
Spec == Init /\ [][Next]_vars

---------------------------------------------------------------------------
\* Restrictions of Spec to the inputs of one concern: the state space of
\* Spec is the product of the two.  Every behaviour of a restriction is a
\* behaviour of Spec.

\* The wrapped battery: its telemetry and its registry entry, under every
\* domain configuration.  The store and the battery type stay as they are.
InitUpstream == Init /\ store = Some(LAST_REPLACED :> 1)
NextUpstream ==
    \/ Lifecycle(DomainConfigs)
    \/ Telemetry(UpstreamStateObjects)
    \/ Registry
SpecUpstream == InitUpstream /\ [][NextUpstream]_vars

\* The device's metadata: the store's last-replaced date, the battery type
\* and the TypeSensor's restore data.  The wrapped battery's registry entry
\* stays as it is.
InitMetadata ==
    /\ Init
    /\ Val(entity_registry).hidden_by = None
    /\ Val(entity_registry).name = None
NextMetadata ==
    \/ Lifecycle(DomainConfigs)
    \/ Telemetry({o \in UpstreamStateObjects : o.state \in {STATE_UNKNOWN, "2.78"}})
    \/ Store
    \/ Metadata
SpecMetadata == InitMetadata /\ [][NextMetadata]_vars

\* The wrapped battery's registry entry and its name.  The telemetry, the
\* store and the battery type stay as they are.
InitNaming == Init /\ store = Some(LAST_REPLACED :> 1)
NextNaming ==
    \/ Lifecycle(DomainConfigs)
    \/ Registry
    \/ Naming
SpecNaming == InitNaming /\ [][NextNaming]_vars

---------------------------------------------------------------------------
\* Properties

\* The wrapped battery's state object as the BatteryPlusSensor reads it:
\* hass.states.get(self._battery_entity_id)
WrappedState == IF plus_sensor.battery_entity_id # None
                   /\ Val(plus_sensor.battery_entity_id) \in DOMAIN hass_states
                THEN Some(hass_states[Val(plus_sensor.battery_entity_id)])
                ELSE None

\* The BatteryPlusSensor is added and tracks the wrapped battery's state.
PlusTracks == /\ plus_sensor.added
              /\ plus_sensor.battery_entity_id # None
              /\ state_listeners[Val(plus_sensor.battery_entity_id)] > 0

\* The global round_battery option, False without a domain configuration.
RoundBatteryOption == IF hass_data # None
                      THEN Get(Val(hass_data), CONF_ROUND_BATTERY, FALSE)
                      ELSE FALSE

\* C1: for every key that both the coordinator-derived attributes and the
\* passthrough attributes of the wrapped battery have, the BatteryPlusSensor's
\* extra_state_attributes gives the coordinator-derived value.
C1_CoordinatorAttributesWin ==
    plus_sensor.exists /\ plus_sensor.wrapped_attributes # None =>
        \A k \in DOMAIN Plus_coordinator_attributes(W)
                   \cap DOMAIN Val(plus_sensor.wrapped_attributes) :
            Plus_extra_state_attributes(W)[k] = Plus_coordinator_attributes(W)[k]

\* C2: a step that removes the wrapped battery from the entity registry while
\* the entry is set up leaves the entry removed, with no coordinator listener
\* and no state-change listener of its sensors left.
C2_UpstreamRemovalRemovesEntry ==
    [][(/\ config_entry.state = "loaded"
        /\ entity_registry # None
        /\ entity_registry' = None)
       => /\ config_entry'.state = "removed"
          /\ \A s \in Sensors : coordinator'.listeners[s] = 0
          /\ \A e \in EntityIds : state_listeners'[e] = 0]_vars

\* C3: a step that changes the wrapped battery's entity_id while the entry is
\* set up reloads the entry: the setup has run again and all its sensors are
\* new objects, not yet added.
C3_EntityIdChangeReloadsEntry ==
    [][(/\ config_entry.state = "loaded"
        /\ entity_registry # None
        /\ entity_registry' # None
        /\ Val(entity_registry').entity_id # Val(entity_registry).entity_id)
       => /\ config_entry'.state = "loaded"
          /\ config_entry'.setup_pc = "first_refresh"
          /\ ~type_sensor'.added
          /\ ~last_replaced_sensor'.added
          /\ ~plus_sensor'.added]_vars

\* C4: a rename of the wrapped battery leaves the LastReplacedSensor's value as
\* it was, and a BatteryPlusSensor that is added tracks the wrapped battery's
\* current entity_id, never one the battery no longer has.
C4_RenameRepointsBatteryPlus ==
    /\ [](plus_sensor.added /\ entity_registry # None
          => /\ plus_sensor.battery_entity_id = Some(Val(entity_registry).entity_id)
             /\ state_listeners[Val(entity_registry).entity_id] > 0)
    /\ [][(/\ entity_registry # None
           /\ entity_registry' # None
           /\ Val(entity_registry').entity_id # Val(entity_registry).entity_id)
          => last_replaced_sensor'.native_value = last_replaced_sensor.native_value]_vars

\* C5: a step that changes the wrapped battery's device_id while the entry is
\* set up takes the entry off its device if the battery still has a registry
\* entry, the entry's device exists and the battery's device_id is no longer
\* the entry's; otherwise it leaves the device registry unchanged.
C5_DeviceChangeDetachesEntry ==
    [][(/\ config_entry.state = "loaded"
        /\ entity_registry # None
        /\ entity_registry' # None
        /\ Val(entity_registry').device_id # Val(entity_registry).device_id)
       => IF device_registry # None /\ Val(entity_registry').device_id # DeviceId
          THEN device_registry' = Some(Val(device_registry) \ {EntryId})
          ELSE device_registry' = device_registry]_vars

\* C6: every sensor of the entry that has been added is among the
\* coordinator's listeners, so that a refresh calls it.
C6_RefreshReachesEverySensor ==
    /\ type_sensor.added => coordinator.listeners["type"] > 0
    /\ last_replaced_sensor.added => coordinator.listeners["last_replaced"] > 0
    /\ plus_sensor.added => coordinator.listeners["plus"] > 0

\* C7: while the BatteryPlusSensor tracks the wrapped battery and the battery's
\* state is missing, unavailable, unknown or no float, the sensor is not
\* available and has no value.
C7_NotNumericIsUnavailable ==
    (/\ PlusTracks
     /\ \/ WrappedState = None
        \/ Val(WrappedState).state \in {STATE_UNAVAILABLE, STATE_UNKNOWN}
        \/ Val(WrappedState).state \notin NumericStates)
    => /\ ~plus_sensor.attr_available
       /\ plus_sensor.attr_native_value = None

C7_Witness ==
    /\ PlusTracks
    /\ WrappedState # None
    /\ Val(WrappedState).state = "low"
    /\ plus_sensor.wrapped_attributes = Some(UpstreamAttributes)
    /\ ~plus_sensor.attr_available

\* C8: while the BatteryPlusSensor tracks the wrapped battery and the battery's
\* state is a number, the sensor is available and its value is that number
\* rounded to a whole number if the round_battery option is set and to one
\* decimal otherwise: a multiple of the unit at most half a unit away.
C8_NumericIsRounded ==
    (PlusTracks /\ WrappedState # None /\ Val(WrappedState).state \in NumericStates)
    => LET x == FloatOf(Val(WrappedState).state)
           unit == IF RoundBatteryOption THEN 100 ELSE 10
       IN /\ plus_sensor.attr_available
          /\ plus_sensor.attr_native_value # None
          /\ Val(plus_sensor.attr_native_value) % unit = 0
          /\ 2 * (Val(plus_sensor.attr_native_value) - x) <= unit
          /\ 2 * (x - Val(plus_sensor.attr_native_value)) <= unit

C8_Witness ==
    /\ PlusTracks
    /\ WrappedState # None
    /\ Val(WrappedState).state = "2.78"
    /\ RoundBatteryOption
    /\ plus_sensor.attr_native_value = Some(300)

\* C9: a step that records a replacement while the LastReplacedSensor is added
\* leaves the sensor with the recorded date as a timestamp in UTC, written to
\* the state machine; and the sensor has no value as long as no replacement
\* was ever recorded.
C9_ReplacementIsRendered ==
    /\ [][(/\ last_replaced_sensor.added
           /\ store' # store
           /\ store' # None
           /\ LAST_REPLACED \in DOMAIN Val(store'))
          => /\ last_replaced_sensor'.native_value =
                    Some([wall |-> Val(store')[LAST_REPLACED], utcoffset |-> 0])
             /\ "last_replaced" \in wrote']_vars
    /\ [](~ever_replaced => last_replaced_sensor.native_value = None)

C9_Witness ==
    /\ last_replaced_sensor.added
    /\ "last_replaced" \in wrote
    /\ store = Some(LAST_REPLACED :> 2)
    /\ last_replaced_sensor.native_value = Some([wall |-> 2, utcoffset |-> 0])

\* C10: when the TypeSensor is added for the first time after Home Assistant
\* started, with restore data and before the setup's
\* async_config_entry_first_refresh, its native_value is the restored value.
C10_RestoredValueIsRendered ==
    [][(/\ fresh_start
        /\ ~type_sensor.added
        /\ type_sensor'.added
        /\ restore_data # None
        /\ config_entry'.setup_pc = "first_refresh")
       => Type_native_value(W)' = Val(restore_data)]_vars

\* C11: the unique ids of the entry's sensors are the entry id (TypeSensor),
\* the entry id followed by _battery_last_replaced (LastReplacedSensor) and
\* the entry id followed by _battery_plus (BatteryPlusSensor), pairwise
\* distinct, and a step that leaves a sensor of a kind in existence (a reload
\* included) leaves that kind's unique id as it was.
C11_UniqueIdsAreDistinctAndStable ==
    /\ [](/\ (type_sensor.exists => type_sensor.unique_id = Some(EntryId))
          /\ (last_replaced_sensor.exists =>
                last_replaced_sensor.unique_id = Some(EntryId \o "_battery_last_replaced"))
          /\ (plus_sensor.exists =>
                plus_sensor.unique_id = Some(EntryId \o "_battery_plus"))
          /\ ((type_sensor.exists /\ last_replaced_sensor.exists) =>
                type_sensor.unique_id # last_replaced_sensor.unique_id)
          /\ ((type_sensor.exists /\ plus_sensor.exists) =>
                type_sensor.unique_id # plus_sensor.unique_id)
          /\ ((last_replaced_sensor.exists /\ plus_sensor.exists) =>
                last_replaced_sensor.unique_id # plus_sensor.unique_id))
    /\ [][/\ ((type_sensor.exists /\ type_sensor'.exists) =>
                type_sensor'.unique_id = type_sensor.unique_id)
           /\ ((last_replaced_sensor.exists /\ last_replaced_sensor'.exists) =>
                last_replaced_sensor'.unique_id = last_replaced_sensor.unique_id)
           /\ ((plus_sensor.exists /\ plus_sensor'.exists) =>
                plus_sensor'.unique_id = plus_sensor.unique_id)]_vars

\* The three sensors exist again, not yet added, after the TypeSensor of an
\* earlier setup had been added: the entry was set up a second time.
C11_Witness ==
    /\ ~fresh_start
    /\ type_sensor.exists /\ ~type_sensor.added
    /\ last_replaced_sensor.exists
    /\ plus_sensor.exists
    /\ plus_sensor.unique_id = Some("01hentry_battery_plus")

\* The number of registry calls of a kind made in a step.
CallCount(c, kind) == Cardinality({i \in DOMAIN c : c[i] = kind})

\* The global hide_battery option, False without a domain configuration.
HideBatteryOption == IF hass_data # None
                     THEN Get(Val(hass_data), CONF_HIDE_BATTERY, FALSE)
                     ELSE FALSE

C13_SubscriptionsAreReleased ==
    /\ config_entry.state # "loaded" =>
          /\ config_entry.registry_listener = None
          /\ \A s \in Sensors : coordinator.listeners[s] = 0
          /\ \A e \in EntityIds : state_listeners[e] = 0
    /\ ~plus_sensor.added =>
          /\ coordinator.listeners["plus"] = 0
          /\ \A e \in EntityIds : state_listeners[e] = 0
    /\ ~last_replaced_sensor.added => coordinator.listeners["last_replaced"] = 0
    /\ ~type_sensor.added => coordinator.listeners["type"] = 0

\* The entry is unloaded after its BatteryPlusSensor had been added and had
\* read a state of the wrapped battery.
C13_Witness ==
    /\ config_entry.state = "not_loaded"
    /\ own_registry.plus_registered
    /\ hass_states # <<>>
    /\ ~plus_sensor.exists
    /\ \A e \in EntityIds : state_listeners[e] = 0

\* C14: the coordinator has at most one listener of each sensor, and at most
\* one state-change subscription exists over all entity ids of the wrapped
\* battery; an added sensor that is a listener is one exactly once.
C14_AtMostOneRegistration ==
    /\ \A s \in Sensors : coordinator.listeners[s] <= 1
    /\ \A e \in EntityIds : state_listeners[e] <= 1
    /\ Cardinality({e \in EntityIds : state_listeners[e] > 0}) <= 1
    /\ last_replaced_sensor.added => coordinator.listeners["last_replaced"] = 1

\* The BatteryPlusSensor has just been added and found its wrapped battery
\* hidden by the integration, as an earlier add left it: a second add, with
\* one registration of each kind.
C14_Witness ==
    /\ plus_sensor.added
    /\ CallCount(calls, "options") = 1
    /\ HideBatteryOption
    /\ CallCount(calls, "hidden_by") = 0
    /\ entity_registry # None
    /\ Val(entity_registry).hidden_by = Some(INTEGRATION)
    /\ coordinator.listeners["plus"] = 1
    /\ coordinator.listeners["last_replaced"] = 1
    /\ state_listeners[Val(plus_sensor.battery_entity_id)] = 1

\* C15: a BatteryPlusSensor that has been added with an entity id of the
\* wrapped battery is subscribed to that entity id, and its availability and
\* value are those of the entity's current state: not available and no value
\* if the state is missing, a sentinel or no float, otherwise available with
\* the state rounded as the sensor's round_battery says.  This holds from the
\* add (the initial read) on, after every later change of that state.
C15_AddedSensorMirrorsUpstream ==
    (plus_sensor.added /\ plus_sensor.battery_entity_id # None)
    => /\ state_listeners[Val(plus_sensor.battery_entity_id)] = 1
       /\ IF WrappedState # None /\ isfloat(Val(WrappedState).state)
          THEN /\ plus_sensor.attr_available
               /\ plus_sensor.attr_native_value =
                    Some(round(FloatOf(Val(WrappedState).state),
                               IF plus_sensor.round_battery THEN 0 ELSE 1))
          ELSE /\ ~plus_sensor.attr_available
               /\ plus_sensor.attr_native_value = None

\* The sensor has just been added and its initial read found "2.25".
C15_Witness ==
    /\ plus_sensor.added
    /\ CallCount(calls, "options") = 1
    /\ ~plus_sensor.round_battery
    /\ WrappedState # None
    /\ Val(WrappedState).state = "2.25"
    /\ plus_sensor.attr_native_value = Some(220)

\* C16: a step that changes a state of the wrapped battery leaves the
\* LastReplacedSensor's value as it was; a step that changes no state of the
\* wrapped battery (a coordinator update among them) leaves the value, the
\* availability and the passthrough attributes of an added BatteryPlusSensor
\* as they were.
C16_ChannelsDoNotInterfere ==
    [][/\ ((/\ hass_states' # hass_states
            /\ last_replaced_sensor.exists
            /\ last_replaced_sensor'.exists)
           => last_replaced_sensor'.native_value = last_replaced_sensor.native_value)
       /\ ((/\ hass_states' = hass_states
            /\ plus_sensor.added
            /\ plus_sensor'.added)
           => /\ plus_sensor'.attr_native_value = plus_sensor.attr_native_value
              /\ plus_sensor'.attr_available = plus_sensor.attr_available
              /\ plus_sensor'.wrapped_attributes = plus_sensor.wrapped_attributes)]_vars

\* A coordinator update has re-rendered both listeners, the BatteryPlusSensor
\* holding a value and passthrough attributes.
C16_Witness ==
    /\ plus_sensor.added
    /\ wrote = {"last_replaced", "plus"}
    /\ calls = <<>>
    /\ plus_sensor.attr_native_value # None
    /\ plus_sensor.wrapped_attributes = Some(UpstreamAttributes)
    /\ last_replaced_sensor.native_value = Some(fromisoformat_utc(2))

\* The global enable_replaced option, True without a domain configuration.
EnableReplacedOption == IF hass_data # None
                        THEN Get(Val(hass_data), CONF_ENABLE_REPLACED, TRUE)
                        ELSE TRUE

\* The defaults of C17: a BatteryPlusSensor has the enable_replaced and
\* round_battery of the domain configuration its setup found, True and False
\* without one, and without one no step issues a hidden_by update.
DefaultsWithoutDomainConfig ==
    /\ plus_sensor.exists =>
          /\ plus_sensor.enable_replaced = EnableReplacedOption
          /\ plus_sensor.round_battery = RoundBatteryOption
    /\ (plus_sensor.exists /\ hass_data = None) =>
          /\ plus_sensor.enable_replaced
          /\ ~plus_sensor.round_battery
    /\ hass_data = None => CallCount(calls, "hidden_by") = 0

\* C17: the BatteryPlusSensor's attributes contain battery_last_replaced if
\* and only if enable_replaced was true for the setup that created it; and
\* the defaults without a domain configuration.
C17_LastReplacedKeyIffEnabled ==
    /\ plus_sensor.exists =>
          (ATTR_BATTERY_LAST_REPLACED \in DOMAIN Plus_extra_state_attributes(W)
             <=> plus_sensor.enable_replaced)
    /\ DefaultsWithoutDomainConfig

\* C17, amended: the BatteryPlusSensor's attributes contain
\* battery_last_replaced if and only if enable_replaced was true for the setup
\* that created it or the passthrough attributes of the wrapped battery carry
\* that key; and the defaults without a domain configuration.
C17_LastReplacedKeyIffEnabledOrPassedThrough ==
    /\ plus_sensor.exists =>
          (ATTR_BATTERY_LAST_REPLACED \in DOMAIN Plus_extra_state_attributes(W)
             <=> \/ plus_sensor.enable_replaced
                 \/ /\ plus_sensor.wrapped_attributes # None
                    /\ ATTR_BATTERY_LAST_REPLACED
                         \in DOMAIN Val(plus_sensor.wrapped_attributes))
    /\ DefaultsWithoutDomainConfig

\* A sensor set up with enable_replaced False has read a numeric state
\* without attributes and exposes no battery_last_replaced.
C17_Witness ==
    /\ plus_sensor.added
    /\ ~plus_sensor.enable_replaced
    /\ plus_sensor.wrapped_attributes = Some(EmptyDict)
    /\ plus_sensor.attr_available
    /\ ATTR_BATTERY_LAST_REPLACED \notin DOMAIN Plus_extra_state_attributes(W)

\* C18: a step that issues a hidden_by update hides a visible entry of the
\* wrapped battery (hide_battery set) or un-hides one hidden by the
\* integration (hide_battery not set), nothing else; and an entry hidden by
\* anyone but the integration keeps its hidden_by, with no update issued, in
\* every step that keeps the entry.
C18_OnlyOwnHidingIsChanged ==
    [][/\ (CallCount(calls', "hidden_by") > 0
           => /\ entity_registry # None
              /\ entity_registry' # None
              /\ CallCount(calls', "hidden_by") = 1
              /\ IF HideBatteryOption
                 THEN /\ Val(entity_registry).hidden_by = None
                      /\ Val(entity_registry').hidden_by = Some(INTEGRATION)
                 ELSE /\ Val(entity_registry).hidden_by = Some(INTEGRATION)
                      /\ Val(entity_registry').hidden_by = None)
       /\ ((/\ entity_registry # None
            /\ entity_registry' # None
            /\ Val(entity_registry).hidden_by \notin {None, Some(INTEGRATION)})
           => /\ Val(entity_registry').hidden_by = Val(entity_registry).hidden_by
              /\ CallCount(calls', "hidden_by") = 0)]_vars

\* The BatteryPlusSensor has just been added, under a domain configuration
\* without hide_battery, for a wrapped battery the user has hidden.
C18_Witness ==
    /\ plus_sensor.added
    /\ CallCount(calls, "options") = 1
    /\ hass_data # None
    /\ ~HideBatteryOption
    /\ entity_registry # None
    /\ Val(entity_registry).hidden_by = Some(USER)

\* C19: a step changes the passthrough attributes of an added
\* BatteryPlusSensor only if the wrapped battery's state after the step is
\* numeric, and then to that state's attributes: a state that is missing,
\* unavailable, unknown or no float leaves them as the last numeric state set
\* them.  Every passthrough key is among the exposed attributes, available
\* or not, with the passthrough value where the coordinator supplies none;
\* and while the tracked state is numeric they are that state's attributes.
C19_PassthroughKeptWhileUnavailable ==
    /\ [][(/\ plus_sensor.added
           /\ plus_sensor'.added
           /\ plus_sensor'.wrapped_attributes # plus_sensor.wrapped_attributes)
          => /\ WrappedState' # None
             /\ isfloat(Val(WrappedState').state)
             /\ plus_sensor'.wrapped_attributes = Some(Val(WrappedState').attributes)]_vars
    /\ []((plus_sensor.exists /\ plus_sensor.wrapped_attributes # None)
          => \A k \in DOMAIN Val(plus_sensor.wrapped_attributes) :
                /\ k \in DOMAIN Plus_extra_state_attributes(W)
                /\ (k \notin DOMAIN Plus_coordinator_attributes(W)
                      => Plus_extra_state_attributes(W)[k]
                           = Val(plus_sensor.wrapped_attributes)[k]))
    /\ []((PlusTracks /\ WrappedState # None /\ isfloat(Val(WrappedState).state))
          => plus_sensor.wrapped_attributes = Some(Val(WrappedState).attributes))

\* The wrapped battery is unavailable after a numeric state with attributes:
\* the sensor is not available and still exposes the upstream's voltage.
C19_Witness ==
    /\ PlusTracks
    /\ WrappedState # None
    /\ Val(WrappedState).state = STATE_UNAVAILABLE
    /\ ~plus_sensor.attr_available
    /\ plus_sensor.wrapped_attributes = Some(UpstreamAttributes)
    /\ Plus_extra_state_attributes(W)["voltage"] = "3V"

\* C20: a step after which the store has no record of the device, or one
\* without a last-replaced date, leaves the value of an added
\* LastReplacedSensor as it was and does not write its state, a coordinator
\* update included; and an added LastReplacedSensor that has a value has one
\* after every step that keeps it added.
C20_MissingRecordLeavesValue ==
    [][/\ ((/\ last_replaced_sensor.added
            /\ last_replaced_sensor'.added
            /\ (store' = None \/ LAST_REPLACED \notin DOMAIN Val(store')))
           => /\ last_replaced_sensor'.native_value = last_replaced_sensor.native_value
              /\ "last_replaced" \notin wrote')
       /\ ((/\ last_replaced_sensor.added
            /\ last_replaced_sensor'.added
            /\ last_replaced_sensor.native_value # None)
           => last_replaced_sensor'.native_value # None)]_vars

\* The BatteryPlusSensor has just been added, its add refreshing the
\* coordinator, after the device's record was deleted: the LastReplacedSensor
\* is a listener, was not written and still has its value.
C20_Witness ==
    /\ last_replaced_sensor.added
    /\ coordinator.listeners["last_replaced"] = 1
    /\ plus_sensor.added
    /\ CallCount(calls, "options") = 1
    /\ wrote = {"plus"}
    /\ store = None
    /\ last_replaced_sensor.native_value # None

\* C21: a step that adds the BatteryPlusSensor, a first add or one after a
\* reload: if its wrapped battery has a registry entry with a name, one name
\* update leaves the sensor's registry name that name followed by a single
\* "+", whatever it was before; if the entry has no name, the sensor's registry
\* name stays as it was and no name update is made; if the wrapped battery
\* has no registry entry, no name update and no hidden_by update is made, the
\* registry entries stay as they were and the sensor is not made a listener
\* of the coordinator.
C21_CopyCustomNameIsIdempotent ==
    [][(~plus_sensor.added /\ plus_sensor'.added)
       => LET wrapped == registry_async_get(W, plus_sensor.battery_entity_id)
          IN IF wrapped = None
             THEN /\ own_registry'.plus_name = own_registry.plus_name
                  /\ entity_registry' = entity_registry
                  /\ CallCount(calls', "name") = 0
                  /\ CallCount(calls', "hidden_by") = 0
                  /\ coordinator'.listeners["plus"] = 0
             ELSE IF Val(wrapped).name = None
             THEN /\ own_registry'.plus_name = own_registry.plus_name
                  /\ CallCount(calls', "name") = 0
             ELSE /\ own_registry'.plus_name = Some(Val(Val(wrapped).name) \o <<"+">>)
                  /\ CallCount(calls', "name") = 1]_vars

\* The BatteryPlusSensor has just been added a second time (its wrapped
\* battery was hidden by the integration before), for a wrapped battery the
\* user has named "Cell".
C21_Witness ==
    /\ plus_sensor.added
    /\ CallCount(calls, "options") = 1
    /\ CallCount(calls, "name") = 1
    /\ entity_registry # None
    /\ Val(entity_registry).name = Some(<<"Cell">>)
    /\ own_registry.plus_name = Some(<<"Cell", "+">>)
    /\ Val(entity_registry).hidden_by = Some(INTEGRATION)
    /\ CallCount(calls, "hidden_by") = 0

====
